---- MODULE Spec2Model ----
(***************************************************************************)
(* Regulatory Certification Search API (main.py, utils.py).                *)
(*                                                                         *)
(* The model follows one /search request through search_certifications:    *)
(* the extraction call, the concurrent per-domain queries collected by     *)
(* asyncio.gather, the logging loop, reformat_results and the              *)
(* deduplication call.  The three helpers whose behaviour depends only on  *)
(* the upstream reply (extract_info_from_question, reformat_results,       *)
(* deduplicate_certifications_with_llm) are operators; besides their use   *)
(* inside the request they can be called directly, as a unit test would.   *)
(*                                                                         *)
(* Text is a sequence of tokens.  A token is one character of JSON         *)
(* punctuation ("[", "]", "{", "}", ","), one complete JSON member or      *)
(* literal, or a piece of prose.  str.find, str.rfind and slicing work on  *)
(* token positions; json.loads is a recursive-descent parser over tokens.  *)
(***************************************************************************)
EXTENDS Integers, Sequences, FiniteSets, TLC

\* ------------------------------------------------------------------ bounds

\* Longest domains list of a request.
MaxDomains == 2
\* Longest reply text (in tokens) of a directly called extraction.
MaxExtractLen == 4
\* Longest reply text (in tokens) of a directly called deduplication.
MaxDedupLen == 4

\* ------------------------------------------------------------- JSON values

Null == [t |-> "null"]
Str(v) == [t |-> "str", v |-> v]
Absent == [t |-> "absent"]
List(e) == [t |-> "list", e |-> e]
Obj(m) == [t |-> "obj", m |-> m]

\* The keys an object of the model can carry.
Keys == {"product", "origin", "destination", "error", "certificate_name", "domain"}
EmptyDict == [k \in Keys |-> Absent]

\* dict.get(key) with the default left out: a missing key gives None.
DictGetNoDefault(m, k, default) == IF m[k] = Absent THEN Null ELSE m[k]

\* dict.get(key, default)
DictGet(m, k, default) == IF m[k] = Absent THEN default ELSE m[k]

\* ----------------------------------------------------------------- tokens

\* One JSON member, "key": value.
MemberToks == {"P", "Pn", "O", "E", "N", "D"}
MemberKey(c) ==
    CASE c = "P" -> "product"
      [] c = "Pn" -> "product"
      [] c = "O" -> "origin"
      [] c = "E" -> "error"
      [] c = "N" -> "certificate_name"
      [] c = "D" -> "domain"
MemberVal(c) ==
    CASE c = "P" -> Str("steel")
      [] c = "Pn" -> Null
      [] c = "O" -> Str("CN")
      [] c = "E" -> Str("no data")
      [] c = "N" -> Str("CE")
      [] c = "D" -> Str("evil.com")

\* One complete JSON object literal without brackets inside.
ObjToks == {"r", "q"}
ObjVal(c) ==
    CASE c = "r" -> Obj([EmptyDict EXCEPT !["certificate_name"] = Str("CE")])
      [] c = "q" -> Obj([EmptyDict EXCEPT !["certificate_name"] = Str("ISO"),
                                          !["domain"] = Str("evil.com")])

\* One JSON string literal.
ScalarToks == {"s"}
ScalarVal(c) == Str("text")

\* "x" is prose, valid nowhere in JSON.

\* --------------------------------------------------------- Python strings

RECURSIVE FindFrom(_, _, _)
FindFrom(s, c, i) ==
    IF i > Len(s) THEN -1
    ELSE IF s[i] = c THEN i - 1
    ELSE FindFrom(s, c, i + 1)

\* str.find(c): the 0-based index of the first c, or -1.
Find(s, c) == FindFrom(s, c, 1)

RECURSIVE RFindFrom(_, _, _)
RFindFrom(s, c, i) ==
    IF i < 1 THEN -1
    ELSE IF s[i] = c THEN i - 1
    ELSE RFindFrom(s, c, i - 1)

\* str.find where str.rfind was meant: the first c.
RFindAsFind(s, c) == FindFrom(s, c, 1)

\* str.rfind(c): the 0-based index of the last c, or -1.
RFind(s, c) == RFindFrom(s, c, Len(s))

\* s[a:b] for 0 <= a and 0 <= b: empty when b <= a.
Slice(s, a, b) ==
    LET hi == IF b > Len(s) THEN Len(s) ELSE b
    IN  IF a >= hi THEN <<>> ELSE SubSeq(s, a + 1, hi)

\* -------------------------------------------------------------- json.loads

ParseFail == [ok |-> FALSE, v |-> Null, n |-> 0]
ParseOk(v, n) == [ok |-> TRUE, v |-> v, n |-> n]

RECURSIVE ParseMembers(_, _, _)
\* The members of an object after "{" or ",": a later duplicate key wins.
ParseMembers(s, i, acc) ==
    IF i > Len(s) \/ s[i] \notin MemberToks THEN ParseFail
    ELSE LET m == [acc EXCEPT ![MemberKey(s[i])] = MemberVal(s[i])]
         IN  IF i + 1 > Len(s) THEN ParseFail
             ELSE IF s[i + 1] = "," THEN ParseMembers(s, i + 2, m)
             ELSE IF s[i + 1] = "}" THEN ParseOk(Obj(m), i + 2)
             ELSE ParseFail

RECURSIVE ParseValue(_, _)
RECURSIVE ParseElems(_, _, _)
\* One JSON value starting at (1-based) position i; n is the position after it.
ParseValue(s, i) ==
    IF i > Len(s) THEN ParseFail
    ELSE CASE s[i] \in ScalarToks -> ParseOk(ScalarVal(s[i]), i + 1)
           [] s[i] \in ObjToks -> ParseOk(ObjVal(s[i]), i + 1)
           [] s[i] = "[" ->
                IF i + 1 <= Len(s) /\ s[i + 1] = "]"
                THEN ParseOk(List(<<>>), i + 2)
                ELSE ParseElems(s, i + 1, <<>>)
           [] s[i] = "{" ->
                IF i + 1 <= Len(s) /\ s[i + 1] = "}"
                THEN ParseOk(Obj(EmptyDict), i + 2)
                ELSE ParseMembers(s, i + 1, EmptyDict)
           [] OTHER -> ParseFail

\* The elements of an array after "[" or ",".
ParseElems(s, i, acc) ==
    LET r == ParseValue(s, i)
    IN  IF ~r.ok \/ r.n > Len(s) THEN ParseFail
        ELSE IF s[r.n] = "," THEN ParseElems(s, r.n + 1, Append(acc, r.v))
        ELSE IF s[r.n] = "]" THEN ParseOk(List(Append(acc, r.v)), r.n + 1)
        ELSE ParseFail

\* json.loads(s): ok is FALSE for json.JSONDecodeError (also on trailing text).
json_loads(s) ==
    LET r == ParseValue(s, 1)
    IN  IF r.ok /\ r.n = Len(s) + 1
        THEN [ok |-> TRUE, v |-> r.v]
        ELSE [ok |-> FALSE, v |-> Null]

\* ------------------------------------------------- the upstream's replies

\* The decoded body of a completion: {"choices": [{"message": {"content": ..}}]}.
\* has_choices, has_message and has_content say whether the key is present;
\* content is Null (JSON null) or Str(text).
Choice(has_message, has_content, content) ==
    [has_message |-> has_message, has_content |-> has_content, content |-> content]
Raw(has_choices, choices) == [has_choices |-> has_choices, choices |-> choices]

\* The Python literal {} where a choice, a message or a response is expected.
EmptyChoice == Choice(FALSE, FALSE, Null)
EmptyRaw == Raw(FALSE, <<>>)

RawContent(text) == Raw(TRUE, <<Choice(TRUE, TRUE, Str(text))>>)

\* Bodies with no usable content.
ShapelessRaws ==
    { EmptyRaw,                                 \* no "choices" key
      Raw(TRUE, <<>>),                          \* "choices": []
      Raw(TRUE, <<Choice(FALSE, FALSE, Null)>>),\* no "message" key
      Raw(TRUE, <<Choice(TRUE, FALSE, Null)>>), \* no "content" key
      Raw(TRUE, <<Choice(TRUE, TRUE, Null)>>) } \* "content": null

\* One HTTP exchange: session.post raises (kind "exception"), or a status
\* arrives and reading the body (response.json() on 200, response.text()
\* otherwise) returns it or raises.
PostException == [kind |-> "exception", status |-> 0, body_ok |-> FALSE, raw |-> EmptyRaw]
\* No exchange yet.
NoReply == [kind |-> "pending", status |-> 0, body_ok |-> FALSE, raw |-> EmptyRaw]
Http(status, body_ok, raw) ==
    [kind |-> "http", status |-> status, body_ok |-> body_ok, raw |-> raw]

\* The replies of an upstream whose 200 bodies are drawn from raws.
Replies(raws) ==
    {PostException, Http(500, TRUE, EmptyRaw), Http(500, FALSE, EmptyRaw),
     Http(200, FALSE, EmptyRaw)}
    \cup {Http(200, TRUE, raw) : raw \in raws}

\* All token sequences of length at most n over alphabet.
RECURSIVE Texts(_, _)
Texts(alphabet, n) ==
    IF n = 0 THEN {<<>>}
    ELSE LET shorter == Texts(alphabet, n - 1)
         IN  shorter \cup {Append(s, c) : s \in shorter, c \in alphabet}

\* ------------------------------------------- reading choices[0].message.content

\* result.get('choices', [{}])[0]: IndexError on an empty list.
FirstChoice(raw) ==
    LET choices == IF raw.has_choices THEN raw.choices ELSE <<EmptyChoice>>
    IN  IF Len(choices) = 0
        THEN [exc |-> "IndexError", choice |-> EmptyChoice]
        ELSE [exc |-> "", choice |-> choices[1]]

\* choice.get('message', {}).get('content', default)
MessageContent(choice, default) ==
    IF choice.has_message /\ choice.has_content THEN choice.content ELSE default

\* ------------------------------------------------ extract_info_from_question

EmptyInfo == [product |-> Str(""), origin |-> Str(""), destination |-> Str("")]

extract_info_from_question(reply) ==
    IF reply.kind = "exception" THEN EmptyInfo          \* except Exception
    ELSE IF reply.status # 200 THEN EmptyInfo           \* also when text() raises
    ELSE IF ~reply.body_ok THEN EmptyInfo               \* response.json() raises
    ELSE LET first == FirstChoice(reply.raw)
             response_content == MessageContent(first.choice, Str(<<>>))
         IN  IF first.exc # "" THEN EmptyInfo           \* IndexError
             ELSE IF response_content.t # "str" THEN EmptyInfo  \* None.find
             ELSE LET json_start == Find(response_content.v, "{")
                      json_end == RFind(response_content.v, "}") + 1
                  IN  IF json_start # -1 /\ json_end # -1
                      THEN LET json_str == Slice(response_content.v, json_start, json_end)
                               extracted_data == json_loads(json_str)
                           IN  IF ~extracted_data.ok THEN EmptyInfo
                               ELSE IF extracted_data.v.t # "obj" THEN EmptyInfo
                               ELSE [product |-> DictGet(extracted_data.v.m, "product", Str("")),
                                     origin |-> DictGet(extracted_data.v.m, "origin", Str("")),
                                     destination |-> DictGet(extracted_data.v.m, "destination", Str(""))]
                      ELSE EmptyInfo

\* ----------------------------------------------------------- query_perplexity

\* A DomainQueryResult: has_response and has_error say which keys the dict has.
Success(domain, info, raw) ==
    [domain |-> domain, product |-> info.product, origin |-> info.origin,
     destination |-> info.destination,
     has_response |-> TRUE, response |-> raw,
     has_error |-> FALSE, error |-> "", details |-> ""]
Failure(domain, info, error, details) ==
    [domain |-> domain, product |-> info.product, origin |-> info.origin,
     destination |-> info.destination,
     has_response |-> FALSE, response |-> EmptyRaw,
     has_error |-> TRUE, error |-> error, details |-> details]

\* The branch taken once the status is 200 and response.json() has returned.
QueryOn200(domain, info, raw) == Success(domain, info, raw)
\* The branch taken once the status is not 200 and response.text() has returned.
QueryOnStatus(domain, info) ==
    Failure(domain, info, "API request failed with status", "error_text")
\* An except clause whose dict lacks the "error" and "details" keys.
QueryOnExceptionNoError(domain, info) ==
    [domain |-> domain, product |-> info.product, origin |-> info.origin,
     destination |-> info.destination,
     has_response |-> FALSE, response |-> EmptyRaw,
     has_error |-> FALSE, error |-> "", details |-> ""]

\* The except Exception clause.
QueryOnException(domain, info) == Failure(domain, info, "Request failed", "str(e)")

query_perplexity(domain, info, reply) ==
    IF reply.kind = "exception" THEN QueryOnException(domain, info)
    ELSE IF ~reply.body_ok THEN QueryOnException(domain, info)
    ELSE IF reply.status = 200 THEN QueryOn200(domain, info, reply.raw)
    ELSE QueryOnStatus(domain, info)

\* ----------------------------------------------------------- reformat_results

\* if response_content: (neither None nor the empty string)
Truthy(content) == content.t = "str" /\ content.v # <<>>

\* for cert in certs_from_domain: cert['domain'] = domain; append.  Item
\* assignment on an element that is no dict raises TypeError.
RECURSIVE TagCerts(_, _, _, _)
TagCerts(certs, domain, j, acc) ==
    IF j > Len(certs) THEN [exc |-> "", value |-> acc]
    ELSE IF certs[j].t # "obj" THEN [exc |-> "TypeError", value |-> <<>>]
    ELSE TagCerts(certs, domain, j + 1,
                  Append(acc, Obj([certs[j].m EXCEPT !["domain"] = Str(domain)])))

\* One pass of the loop over results: the list after the entry, or the
\* exception it raises.
ReformatEntry(entry, acc) ==
    LET domain == entry.domain
        first == FirstChoice(IF entry.has_response THEN entry.response ELSE EmptyRaw)
        response_content == MessageContent(first.choice, Null)
    IN  IF first.exc # "" THEN [exc |-> first.exc, value |-> <<>>]
        ELSE IF Truthy(response_content)
        THEN LET certs_from_domain == json_loads(response_content.v)
             IN  IF ~certs_from_domain.ok THEN [exc |-> "", value |-> acc]
                 ELSE IF certs_from_domain.v.t = "list"
                 THEN TagCerts(certs_from_domain.v.e, domain, 1, acc)
                 ELSE [exc |-> "", value |-> acc]   \* error object or other: logged
        ELSE [exc |-> "", value |-> acc]            \* top-level error: logged

RECURSIVE ReformatFrom(_, _, _)
ReformatFrom(results, i, acc) ==
    IF i > Len(results) THEN [exc |-> "", value |-> acc]
    ELSE LET step == ReformatEntry(results[i], acc)
         IN  IF step.exc # "" THEN step
             ELSE ReformatFrom(results, i + 1, step.value)

\* reformat_results({"results": results}): exc names the exception raised
\* ("" when it returns), value is combined_certifications.
reformat_results(results) == ReformatFrom(results, 1, <<>>)

\* ---------------------------- the logging loop of search_certifications

\* The loop without its "error" not in result test: result['response'] of a
\* Failure raises KeyError.
LogEntryNoErrorCheck(result) ==
    IF ~result.has_response THEN "KeyError"
    ELSE IF ~result.response.has_choices THEN ""
    ELSE IF Len(result.response.choices) = 0 THEN "IndexError"
    ELSE LET choice == result.response.choices[1]
         IN  IF ~choice.has_message \/ ~choice.has_content THEN "KeyError"
             ELSE IF choice.content.t # "str" THEN "TypeError"
             ELSE ""

\* content = result['response']['choices'][0]['message']['content'], then
\* json.loads(content): only json.JSONDecodeError is caught.
LogEntryException(result) ==
    IF result.has_error THEN ""
    ELSE IF ~(result.has_response /\ result.response.has_choices) THEN ""
    ELSE IF Len(result.response.choices) = 0 THEN "IndexError"
    ELSE LET choice == result.response.choices[1]
         IN  IF ~choice.has_message \/ ~choice.has_content THEN "KeyError"
             ELSE IF choice.content.t # "str" THEN "TypeError"
             ELSE ""

\* The exception the loop over results raises, "" when it completes.
LogResultsException(results) ==
    IF \E i \in 1..Len(results) : LogEntryException(results[i]) # ""
    THEN LET i == CHOOSE k \in 1..Len(results) :
                      /\ LogEntryException(results[k]) # ""
                      /\ \A h \in 1..(k - 1) : LogEntryException(results[h]) = ""
         IN  LogEntryException(results[i])
    ELSE ""

\* ------------------------------------ deduplicate_certifications_with_llm

deduplicate_certifications_with_llm(certifications, reply) ==
    IF reply.kind = "exception" THEN certifications     \* except Exception
    ELSE IF reply.status # 200 THEN certifications      \* also when text() raises
    ELSE IF ~reply.body_ok THEN certifications          \* response.json() raises
    ELSE LET first == FirstChoice(reply.raw)
             response_content == MessageContent(first.choice, Str(<<>>))
         IN  IF first.exc # "" THEN certifications      \* IndexError
             ELSE IF response_content.t # "str" THEN certifications  \* None.find
             ELSE LET json_start == Find(response_content.v, "[")
                      json_end == RFind(response_content.v, "]") + 1
                  IN  IF json_start # -1 /\ json_end # -1
                      THEN LET json_str == Slice(response_content.v, json_start, json_end)
                               deduplicated_certs == json_loads(json_str)
                           IN  IF ~deduplicated_certs.ok THEN certifications
                               ELSE IF deduplicated_certs.v.t = "list"
                               THEN deduplicated_certs.v.e
                               ELSE certifications
                      ELSE certifications

\* ------------------------------------------------------------------- inputs

Domains == {"a.com", "b.com"}

\* request.domains: every list of at most MaxDomains domains, the empty one too.
DomainLists == UNION {[1..n -> Domains] : n \in 0..MaxDomains}

\* The message contents a domain query's completion carries.
DomainContents ==
    { <<"x">>,                            \* Sorry, I cannot help.
      <<"[", "]">>,                       \* []
      <<"[", "r", ",", "q", "]">>,        \* two records, one naming a domain
      <<"[", "s", "]">>,                  \* a list of strings
      <<"{", "E", "}">>,                  \* {"error": "no data"}
      <<"{", "N", "}">> }                 \* an object without an error key
DomainRaws == ShapelessRaws \cup {RawContent(c) : c \in DomainContents}

\* The message contents of a directly called extraction / deduplication.
ExtractTexts == Texts({"{", "}", ",", "P", "Pn", "x"}, MaxExtractLen)
DedupTexts == Texts({"[", "]", ",", "r", "x"}, MaxDedupLen)
ExtractReplies == Replies(ShapelessRaws \cup {RawContent(c) : c \in ExtractTexts})
DedupReplies == Replies(ShapelessRaws \cup {RawContent(c) : c \in DedupTexts})

\* The message contents the deduplication's completion carries inside a request.
RequestDedupContents ==
    { <<"x">>,                            \* prose only
      <<"[", "]">>,                       \* everything merged away
      <<"x", "[", "r", "]", "x">> }       \* one record, with commentary around it
RequestDedupReplies == Replies({RawContent(c) : c \in RequestDedupContents})

\* The certification lists a direct caller hands to the deduplication.
Cert(name, domain) ==
    Obj([EmptyDict EXCEPT !["certificate_name"] = Str(name), !["domain"] = Str(domain)])
DedupInputs ==
    {<<>>, <<Cert("CE", "a.com")>>, <<Cert("CE", "a.com"), Cert("CE", "b.com")>>}

\* -------------------------------------------------------------------- state

VARIABLES
    pc,         \* where the call is: "idle", the request's stages, or a unit call's end
    domains,    \* request.domains
    info,       \* extracted_info
    tasks,      \* the query_perplexity coroutines handed to asyncio.gather
    results,    \* what process_domains returned
    formatted,  \* formatted_results / the certifications argument
    deduped,    \* deduplicated_results
    response,   \* what the caller of search_certifications gets
    reply,      \* the upstream reply of a unit call
    exc,        \* the exception that ended the call, "" when none
    calls       \* upstream requests posted so far

vars == <<pc, domains, info, tasks, results, formatted, deduped, response, reply, exc, calls>>

NoResponse == [status |-> 0, detail |-> "", results |-> <<>>]
NoResult ==
    [domain |-> "", product |-> Str(""), origin |-> Str(""), destination |-> Str(""),
     has_response |-> FALSE, response |-> EmptyRaw,
     has_error |-> FALSE, error |-> "", details |-> ""]
\* A task: where it is suspended (st), the exchange as far as it has seen it
\* (reply) and, once done, what it returned (result) and its place in the
\* order in which the tasks completed (done_at, 0 while it runs).
NewTask == [st |-> "posted", reply |-> NoReply, result |-> NoResult, done_at |-> 0]

\* The place of the next task to complete.
NextDoneAt(ts) == Cardinality({k \in 1..Len(ts) : ts[k].st = "done"}) + 1

Init ==
    /\ pc = "idle"
    /\ domains = <<>>
    /\ info = EmptyInfo
    /\ tasks = <<>>
    /\ results = <<>>
    /\ formatted = <<>>
    /\ deduped = <<>>
    /\ response = NoResponse
    /\ reply = NoReply
    /\ exc = ""
    /\ calls = 0

\* ---------------------------------------------------- search_certifications

\* return {"elapsed_seconds": ..., "results": deduplicated_results}
SearchResponse(deduplicated_results) ==
    [status |-> 200, detail |-> "", results |-> deduplicated_results]

\* except Exception as e: raise HTTPException(status_code=500, detail=str(e))
SearchExcept(detail) == [status |-> 500, detail |-> detail, results |-> <<>>]

\* The handler is entered.  An empty domains list raises HTTPException(400)
\* inside the try block, where except Exception catches it; otherwise
\* process_domains posts the extraction request.
Search ==
    /\ pc = "idle"
    /\ \E doms \in DomainLists :
        /\ domains' = doms
        /\ IF Len(doms) = 0
           THEN /\ pc' = "failed"
                /\ exc' = "HTTPException"
                /\ response' = SearchExcept("400: No domains provided")
                /\ calls' = calls
           ELSE /\ pc' = "extracting"
                /\ exc' = ""
                /\ response' = response
                /\ calls' = calls + 1
    /\ UNCHANGED <<info, tasks, results, formatted, deduped, reply>>

\* process_domains: the extraction returns, one coroutine per domain is built
\* and gather starts them all; each runs to its session.post.
StartQueries ==
    /\ pc = "extracting"
    /\ \E r \in ExtractReplies : info' = extract_info_from_question(r)
    /\ tasks' = [i \in 1..Len(domains) |-> NewTask]
    /\ calls' = calls + Len(domains)
    /\ pc' = "fanout"
    /\ UNCHANGED <<domains, results, formatted, deduped, response, reply, exc>>

\* await session.post(...) of task i resumes: it raises, or a status arrives.
TaskStatus(i) ==
    /\ pc = "fanout"
    /\ tasks[i].st = "posted"
    /\ \/ tasks' = [tasks EXCEPT ![i] =
                      [st |-> "done", reply |-> PostException,
                       result |-> query_perplexity(domains[i], info, PostException),
                       done_at |-> NextDoneAt(tasks)]]
       \/ \E status \in {200, 500} :
            tasks' = [tasks EXCEPT ![i] =
                        [@ EXCEPT !.st = "reading",
                                  !.reply = Http(status, FALSE, EmptyRaw)]]
    /\ UNCHANGED <<pc, domains, info, results, formatted, deduped, response, reply, exc, calls>>

\* await response.json() / response.text() of task i resumes: the body, or
\* an exception.
TaskBody(i) ==
    /\ pc = "fanout"
    /\ tasks[i].st = "reading"
    /\ \E r \in Replies(DomainRaws) :
        /\ r.kind = "http"
        /\ r.status = tasks[i].reply.status
        /\ tasks' = [tasks EXCEPT ![i] =
                       [st |-> "done", reply |-> r,
                        result |-> query_perplexity(domains[i], info, r),
                        done_at |-> NextDoneAt(tasks)]]
    /\ UNCHANGED <<pc, domains, info, results, formatted, deduped, response, reply, exc, calls>>

\* A collection that keeps the successful results only.
GatherSucceeded(ts) ==
    LET all == [i \in 1..Len(ts) |-> ts[i].result]
    IN  SelectSeq(all, LAMBDA res : res.has_response)

\* A collection in which the first failure cancels the tasks after it.
GatherCancelOnFailure(ts) ==
    [i \in 1..Len(ts) |->
        IF \E k \in 1..(i - 1) : ts[k].result.has_error
        THEN [ts[i].result EXCEPT !.has_response = FALSE, !.response = EmptyRaw,
                                  !.has_error = TRUE, !.error = "Cancelled",
                                  !.details = "CancelledError"]
        ELSE ts[i].result]

\* A collection in completion order, as iterating asyncio.as_completed gives.
GatherAsCompleted(ts) ==
    [k \in 1..Len(ts) |-> ts[CHOOSE i \in 1..Len(ts) : ts[i].done_at = k].result]

\* What asyncio.gather(*tasks) returns: the tasks' results in argument order.
GatherResults(ts) == [i \in 1..Len(ts) |-> ts[i].result]

\* return await asyncio.gather(*tasks): resumes once every task is done.
Gather ==
    /\ pc = "fanout"
    /\ \A i \in 1..Len(tasks) : tasks[i].st = "done"
    /\ results' = GatherResults(tasks)
    /\ pc' = "gathered"
    /\ UNCHANGED <<domains, info, tasks, formatted, deduped, response, reply, exc, calls>>

\* The tasks once process_domains has returned: what each saw and returned
\* stays on record, the order in which they completed is gone with the gather.
Collected(ts) == [i \in 1..Len(ts) |-> [ts[i] EXCEPT !.done_at = 0]]

\* The loop that logs every result; what it raises reaches except Exception.
LogResults ==
    /\ pc = "gathered"
    /\ tasks' = Collected(tasks)
    /\ LET e == LogResultsException(results)
       IN  IF e # ""
           THEN /\ pc' = "failed"
                /\ exc' = e
                /\ response' = SearchExcept(e)
           ELSE /\ pc' = "logged"
                /\ UNCHANGED <<exc, response>>
    /\ UNCHANGED <<domains, info, results, formatted, deduped, reply, calls>>

\* formatted_results = reformat_results({"results": results}), then the
\* deduplication request is posted.
Reformat ==
    /\ pc = "logged"
    /\ LET r == reformat_results(results)
       IN  IF r.exc # ""
           THEN /\ pc' = "failed"
                /\ exc' = r.exc
                /\ response' = SearchExcept(r.exc)
                /\ UNCHANGED <<formatted, calls>>
           ELSE /\ pc' = "formatted"
                /\ formatted' = r.value
                /\ calls' = calls + 1
                /\ UNCHANGED <<exc, response>>
    /\ UNCHANGED <<domains, info, tasks, results, deduped, reply>>

\* The deduplication returns and the handler returns its response.
Deduplicate ==
    /\ pc = "formatted"
    /\ \E r \in RequestDedupReplies :
        /\ deduped' = deduplicate_certifications_with_llm(formatted, r)
        /\ response' = SearchResponse(deduped')
    /\ pc' = "returned"
    /\ UNCHANGED <<domains, info, tasks, results, formatted, reply, exc, calls>>

\* ------------------------------------------------------------- direct calls

\* extract_info_from_question(user_question), called on its own.
CallExtract ==
    /\ pc = "idle"
    /\ \E r \in ExtractReplies :
        /\ reply' = r
        /\ info' = extract_info_from_question(r)
    /\ calls' = calls + 1
    /\ pc' = "extract_returned"
    /\ UNCHANGED <<domains, tasks, results, formatted, deduped, response, exc>>

\* reformat_results({"results": rs}), called on its own with any results.
CallReformat ==
    /\ pc = "idle"
    /\ \E doms \in DomainLists :
       \E rs \in [1..Len(doms) -> Replies(DomainRaws)] :
        /\ domains' = doms
        /\ results' = [i \in 1..Len(doms) |-> query_perplexity(doms[i], EmptyInfo, rs[i])]
        /\ LET r == reformat_results(results')
           IN  /\ exc' = r.exc
               /\ formatted' = r.value
               /\ pc' = IF r.exc # "" THEN "reformat_raised" ELSE "reformat_returned"
    /\ UNCHANGED <<info, tasks, deduped, response, reply, calls>>

\* deduplicate_certifications_with_llm(certifications), called on its own.
CallDeduplicate ==
    /\ pc = "idle"
    /\ \E certs \in DedupInputs, r \in DedupReplies :
        /\ formatted' = certs
        /\ reply' = r
        /\ deduped' = deduplicate_certifications_with_llm(certs, r)
    /\ calls' = calls + 1
    /\ pc' = "dedup_returned"
    /\ UNCHANGED <<domains, info, tasks, results, response, exc>>

Next ==
    \/ Search
    \/ StartQueries
    \/ \E i \in 1..MaxDomains + 1 : i <= Len(tasks) /\ TaskStatus(i)
    \/ \E i \in 1..MaxDomains + 1 : i <= Len(tasks) /\ TaskBody(i)
    \/ Gather
    \/ LogResults
    \/ Reformat
    \/ Deduplicate
    \/ CallExtract
    \/ CallReformat
    \/ CallDeduplicate

Spec == Init /\ [][Next]_vars

\* ===================================================================== claims

\* The request is past asyncio.gather: process_domains has returned.
AfterGather ==
    /\ pc \in {"gathered", "logged", "formatted", "returned", "failed"}
    /\ Len(domains) > 0

\* The exchange of a task ended in HTTP 200 with a decoded body.
Exchange200(r) == r.kind = "http" /\ r.status = 200 /\ r.body_ok
\* A result has the Success shape / the Failure shape.
IsSuccess(res) == res.has_response /\ ~res.has_error
IsFailure(res) == res.has_error /\ ~res.has_response

\* C1: once process_domains has returned for a non-empty domains list, the
\* sequence it returned is as long as the list, and every domain has exactly
\* as many results carrying it as it has occurrences in the list, whatever
\* the outcome of each query was.
C1_OneResultPerDomain ==
    AfterGather =>
        /\ Len(results) = Len(domains)
        /\ \A d \in Domains :
            Cardinality({i \in 1..Len(results) : results[i].domain = d})
                = Cardinality({i \in 1..Len(domains) : domains[i] = d})
        /\ \A i \in 1..Len(results) : IsSuccess(results[i]) \/ IsFailure(results[i])

\* C1 witness: a batch naming the same domain twice has been collected, one
\* query having succeeded and one having failed.
C1_Witness ==
    /\ pc = "gathered"
    /\ Len(domains) = 2
    /\ domains[1] = domains[2]
    /\ \E i, j \in 1..Len(results) : IsSuccess(results[i]) /\ IsFailure(results[j])

\* C2: a task's result is a Failure exactly when its own exchange failed
\* (non-200 status, or an exception), whatever the other tasks' exchanges did
\* and in whatever order they completed; gather returns only when every task
\* is done, and returns every task's own result.
C2_FailureIsolated ==
    /\ \A i \in 1..Len(tasks) :
        tasks[i].st = "done" =>
            /\ IsSuccess(tasks[i].result) <=> Exchange200(tasks[i].reply)
            /\ IsFailure(tasks[i].result) <=> ~Exchange200(tasks[i].reply)
    /\ AfterGather =>
        /\ Len(results) = Len(tasks)
        /\ \A i \in 1..Len(tasks) :
            /\ tasks[i].st = "done"
            /\ IsSuccess(results[i]) <=> Exchange200(tasks[i].reply)
            /\ results[i].domain = domains[i]

\* C2 witness: the first domain's query got HTTP 500 and the second domain's
\* query succeeded, and both were collected.
C2_Witness ==
    /\ pc = "gathered"
    /\ Len(results) = 2
    /\ tasks[1].reply.kind = "http" /\ tasks[1].reply.status = 500
    /\ IsFailure(results[1])
    /\ IsSuccess(results[2])

\* C8 as stated: HTTP 200 gives Success, a non-200 status gives the Failure
\* with the status and body, an exception of session.post gives the
\* transport Failure, and every result has exactly one of the two shapes.
C8_ShapeByStatus ==
    \A i \in 1..Len(tasks) :
        tasks[i].st = "done" =>
            LET r == tasks[i].reply
                res == tasks[i].result
            IN  /\ (r.kind = "http" /\ r.status = 200)
                        => IsSuccess(res) /\ res.response = r.raw
                /\ (r.kind = "http" /\ r.status # 200)
                        => IsFailure(res) /\ res.error = "API request failed with status"
                /\ r.kind = "exception"
                        => IsFailure(res) /\ res.error = "Request failed"
                /\ IsSuccess(res) \/ IsFailure(res)

\* C8 amended: the result follows the status only when the body was read.
\* HTTP 200 with a body that decodes gives Success carrying that body; a
\* non-200 status whose body was read gives the Failure with the status and
\* body; an exception anywhere in the exchange (session.post, response.json()
\* on a 200, response.text() on a non-200) gives the transport Failure; every
\* result has exactly one of the two shapes and carries the query's domain.
C8_ShapeByExchange ==
    \A i \in 1..Len(tasks) :
        tasks[i].st = "done" =>
            LET r == tasks[i].reply
                res == tasks[i].result
            IN  /\ (r.kind = "http" /\ r.status = 200 /\ r.body_ok)
                        => IsSuccess(res) /\ res.response = r.raw
                /\ (r.kind = "http" /\ r.status # 200 /\ r.body_ok)
                        => /\ IsFailure(res)
                           /\ res.error = "API request failed with status"
                           /\ res.details = "error_text"
                /\ (r.kind = "exception" \/ ~r.body_ok)
                        => /\ IsFailure(res)
                           /\ res.error = "Request failed"
                           /\ res.details = "str(e)"
                /\ IsSuccess(res) \/ IsFailure(res)
                /\ res.domain = domains[i]

\* C8 witness: a query whose status was 200 and whose body failed to decode
\* is done, with the transport Failure as its result.
C8_Witness ==
    \E i \in 1..Len(tasks) :
        /\ tasks[i].st = "done"
        /\ tasks[i].reply.kind = "http"
        /\ tasks[i].reply.status = 200
        /\ ~tasks[i].reply.body_ok
        /\ IsFailure(tasks[i].result)
        /\ tasks[i].result.error = "Request failed"

\* The text of a reply's first message, when the reply has one: HTTP 200, a
\* decoded body, a first choice, its message and a string content.
HasText(r) ==
    /\ Exchange200(r)
    /\ r.raw.has_choices
    /\ Len(r.raw.choices) > 0
    /\ r.raw.choices[1].has_message
    /\ r.raw.choices[1].has_content
    /\ r.raw.choices[1].content.t = "str"
TextOf(r) == r.raw.choices[1].content.v

\* The positions of a token in a text, and the span from the first open to
\* the last close, which exists when the first open comes before the last close.
Positions(s, c) == {i \in 1..Len(s) : s[i] = c}
Least(S) == CHOOSE i \in S : \A j \in S : i <= j
Greatest(S) == CHOOSE i \in S : \A j \in S : j <= i
HasSpan(s, open, close) ==
    /\ Positions(s, open) # {}
    /\ Positions(s, close) # {}
    /\ Least(Positions(s, open)) < Greatest(Positions(s, close))
Span(s, open, close) ==
    SubSeq(s, Least(Positions(s, open)), Greatest(Positions(s, close)))

\* reformat_results has been applied to results: called directly, or reached
\* by a request whose logging loop completed.
ReformatReturned == pc \in {"reformat_returned", "formatted", "returned"}
ReformatRaised ==
    \/ pc = "reformat_raised"
    \/ pc = "failed" /\ Len(domains) > 0 /\ LogResultsException(results) = ""

\* C3: reformat_results returns for every sequence of results; it never
\* raises, whatever the content of a Success is.
C3_NeverRaises == ~ReformatRaised

\* The records the spec expects of one result: the elements of the list its
\* content parses to, each tagged with the result's domain; none otherwise.
C4_Tag(e, domain) ==
    IF e.t = "obj" THEN Obj([e.m EXCEPT !["domain"] = Str(domain)]) ELSE e
C4_RecordsOf(res) ==
    IF /\ IsSuccess(res)
       /\ HasText(Http(200, TRUE, res.response))
       /\ json_loads(TextOf(Http(200, TRUE, res.response))).ok
       /\ json_loads(TextOf(Http(200, TRUE, res.response))).v.t = "list"
    THEN LET e == json_loads(TextOf(Http(200, TRUE, res.response))).v.e
         IN  [j \in 1..Len(e) |-> C4_Tag(e[j], res.domain)]
    ELSE <<>>
RECURSIVE C4_Expected(_, _)
C4_Expected(rs, n) ==
    IF n = 0 THEN <<>> ELSE C4_Expected(rs, n - 1) \o C4_RecordsOf(rs[n])

\* C4: whenever reformat_results has been applied to a sequence of results,
\* it has returned exactly the concatenation, in encounter order, of the
\* list elements of the Success results whose content parses to a list, each
\* tagged with its result's domain; every other result contributes nothing.
C4_OutputIsConcatenation ==
    (ReformatReturned \/ ReformatRaised) =>
        /\ ReformatReturned
        /\ formatted = C4_Expected(results, Len(results))

\* C4 on the calls that return (the part of C4 the code keeps): the returned
\* list is that concatenation.
C4_OutputWhenReturned ==
    ReformatReturned => formatted = C4_Expected(results, Len(results))

\* C5: a directly called deduplication returns the parsed array when the
\* status is 200, the reply has a text with a '[' ... ']' span and the span
\* decodes to a list; in every other case it returns its argument unchanged.
C5_FailOpen ==
    pc = "dedup_returned" =>
        IF /\ HasText(reply)
           /\ HasSpan(TextOf(reply), "[", "]")
           /\ json_loads(Span(TextOf(reply), "[", "]")).ok
           /\ json_loads(Span(TextOf(reply), "[", "]")).v.t = "list"
        THEN deduped = json_loads(Span(TextOf(reply), "[", "]")).v.e
        ELSE deduped = formatted

\* C5 witness: the status was 200 and the text holds a ']' and, after it, a
\* '[' (no span), and the non-empty argument came back unchanged.
C5_Witness ==
    /\ pc = "dedup_returned"
    /\ HasText(reply)
    /\ Positions(TextOf(reply), "[") # {}
    /\ Positions(TextOf(reply), "]") # {}
    /\ ~HasSpan(TextOf(reply), "[", "]")
    /\ Len(formatted) = 2
    /\ deduped = formatted

\* C6 as stated: in the response search_certifications returns, every domain
\* whose query ended in Failure has a result entry showing the failure.
C6_FailureInResponse ==
    pc = "returned" =>
        \A i \in 1..Len(results) :
            IsFailure(results[i]) =>
                \E k \in 1..Len(response.results) :
                    /\ response.results[k].t = "obj"
                    /\ response.results[k].m["domain"] = Str(results[i].domain)
                    /\ response.results[k].m["error"] # Absent

\* C6 amended: a query's failure is visible in that domain's entry of the
\* sequence process_domains returns (error and details), and Failure entries
\* alone never make the request fail; the normalized list holds records of
\* Success entries only, and the returned response carries the deduplication's
\* output, no per-domain result entries.
C6_FailureInProcessDomains ==
    /\ AfterGather =>
        /\ \A i \in 1..Len(tasks) :
            ~Exchange200(tasks[i].reply) =>
                /\ IsFailure(results[i])
                /\ results[i].domain = domains[i]
                /\ results[i].error # ""
                /\ results[i].details # ""
        /\ (\A i \in 1..Len(results) : IsFailure(results[i])) => pc # "failed"
    /\ pc \in {"formatted", "returned"} =>
        \A k \in 1..Len(formatted) :
            \E i \in 1..Len(results) :
                /\ IsSuccess(results[i])
                /\ formatted[k].m["domain"] = Str(results[i].domain)
    /\ pc = "returned" =>
        /\ response.status = 200
        /\ response.results = deduped

\* C6 witness: the request returned the two records of one domain while the
\* other domain's query had failed.
C6_Witness ==
    /\ pc = "returned"
    /\ Len(results) = 2
    /\ IsSuccess(results[1])
    /\ IsFailure(results[2])
    /\ results[1].domain # results[2].domain
    /\ Len(formatted) = 2
    /\ response.results = formatted

\* C7: the extracted product, origin and destination, and the values every
\* domain query is given, are strings, never null.
C7_NeverNull ==
    /\ info.product.t = "str"
    /\ info.origin.t = "str"
    /\ info.destination.t = "str"
    /\ \A i \in 1..Len(tasks) :
        tasks[i].st = "done" =>
            /\ tasks[i].result.product.t = "str"
            /\ tasks[i].result.origin.t = "str"
            /\ tasks[i].result.destination.t = "str"

\* The info the extraction's contract gives for a parsed object: each key's
\* value, the empty string for a missing key.
C9_InfoOf(m) ==
    [product |-> IF m["product"] = Absent THEN Str("") ELSE m["product"],
     origin |-> IF m["origin"] = Absent THEN Str("") ELSE m["origin"],
     destination |-> IF m["destination"] = Absent THEN Str("") ELSE m["destination"]]

\* C9: a directly called extraction returns the all-empty triple unless the
\* status is 200 and the reply's text has a '{' ... '}' span that parses;
\* when it parses, every key missing from it is the empty string.
C9_EmptyTriple ==
    pc = "extract_returned" =>
        IF /\ HasText(reply)
           /\ HasSpan(TextOf(reply), "{", "}")
           /\ json_loads(Span(TextOf(reply), "{", "}")).ok
        THEN info = C9_InfoOf(json_loads(Span(TextOf(reply), "{", "}")).v.m)
        ELSE info = EmptyInfo

\* C9 witness: the span parsed to an object holding only a product, and
\* origin and destination came back as the empty string.
C9_Witness ==
    /\ pc = "extract_returned"
    /\ HasText(reply)
    /\ HasSpan(TextOf(reply), "{", "}")
    /\ TextOf(reply)[1] = "x"
    /\ info.product = Str("steel")
    /\ info.origin = Str("")
    /\ info.destination = Str("")

\* C10: a request with an empty domains list fails with status 400 and
\* detail 'No domains provided', and no upstream request has been posted.
C10_EmptyDomains400 ==
    (pc = "failed" /\ Len(domains) = 0) =>
        /\ response.status = 400
        /\ response.detail = "No domains provided"
        /\ calls = 0

\* C10, the part the code keeps: the request fails before any upstream call.
C10_NoUpstreamCall ==
    (pc = "failed" /\ Len(domains) = 0) => calls = 0

\* C11: once process_domains has returned, the i-th result is the i-th
\* task's own result and carries the i-th input domain, in whatever order the
\* queries completed; the normalized list is then the concatenation of the
\* domains' records in input order.
C11_InputOrderPreserved ==
    /\ AfterGather =>
        \A i \in 1..Len(domains) :
            /\ i <= Len(results)
            /\ results[i].domain = domains[i]
            /\ results[i] = tasks[i].result
    /\ pc \in {"formatted", "returned"} =>
        formatted = C4_Expected([i \in 1..Len(domains) |-> tasks[i].result], Len(domains))

\* C11 witness: the second domain's query completed before the first's, both
\* returned records, and gather has returned the first domain's result first.
C11_Witness ==
    /\ pc = "gathered"
    /\ Len(domains) = 2
    /\ domains[1] # domains[2]
    /\ tasks[2].done_at < tasks[1].done_at
    /\ Len(C4_RecordsOf(results[1])) = 2
    /\ Len(C4_RecordsOf(results[2])) = 2
    /\ results[1].domain = domains[1]
    /\ results[2].domain = domains[2]

====
